---- MODULE Spec2Model ----
(***************************************************************************)
(* A model of mathics/builtin/datentime.py: the date builtins DateList,    *)
(* DateString, AbsoluteTime, DatePlus and DateDifference, together with    *)
(* the helper class _Date and the shared method _DateFormat.to_datelist.   *)
(*                                                                         *)
(* Python values are tagged records.  A number is [k, w, f]: k is "int" or *)
(* "float", w is the floor of the value and f the fractional part counted  *)
(* in millionths, so the value is w + f/10^6 (f = 0 for an int).  A string *)
(* is a sequence of one-character strings, so that strip/lstrip/split and  *)
(* strftime/strptime are computed character by character.                  *)
(***************************************************************************)
EXTENDS Integers, Sequences, FiniteSets, TLC

\* ------------------------------------------------------------------------
\* Python values
\* ------------------------------------------------------------------------
Integer(n) == [k |-> "int", w |-> n, f |-> 0]
Real(w, f) == [k |-> "float", w |-> w, f |-> f]
Str(s) == [k |-> "str", s |-> s]
List(items) == [k |-> "list", items |-> items]
None == [k |-> "None"]

IsNum(v) == v.k \in {"int", "float"}
IsInt(v) == v.k = "int"
IsFloat(v) == v.k = "float"
IsStr(v) == v.k = "str"
IsList(v) == v.k = "list"

\* 1e6 / 1e-06: the scale between seconds and microseconds
Micro == 1000000

\* int(x): truncation towards zero
PyInt(v) == IF v.w < 0 /\ v.f > 0 THEN v.w + 1 ELSE v.w
\* x % 1., in millionths
PyFrac(v) == v.f

\* a * c for a number a and a small integer c from TIME_INCREMENTS
NumTimes(a, c) ==
    LET p == a.f * c
    IN [k |-> a.k, w |-> a.w * c + p \div Micro, f |-> p % Micro]

\* a - 1
NumMinus1(a) == [k |-> a.k, w |-> a.w - 1, f |-> a.f]

\* results of a step that may raise: exc is "" or the exception's name
Ok(v) == [exc |-> "", v |-> v]
Raise(e) == [exc |-> e, v |-> None]

\* ------------------------------------------------------------------------
\* datetime.datetime and datetime.timedelta
\* ------------------------------------------------------------------------
MINYEAR == 1
MAXYEAR == 9999

IsLeap(y) == (y % 4 = 0) /\ ((y % 100 # 0) \/ (y % 400 = 0))

DaysInMonth(y, m) ==
    IF m = 2 THEN (IF IsLeap(y) THEN 29 ELSE 28)
    ELSE IF m \in {4, 6, 9, 11} THEN 30 ELSE 31

DaysBeforeYear(y) ==
    LET p == y - 1 IN p * 365 + (p \div 4) - (p \div 100) + (p \div 400)

DaysBeforeMonth(y, m) ==
    <<0, 31, 59, 90, 120, 151, 181, 212, 243, 273, 304, 334>>[m]
      + (IF m > 2 /\ IsLeap(y) THEN 1 ELSE 0)

ymd2ord(y, m, d) == DaysBeforeYear(y) + DaysBeforeMonth(y, m) + d

MaxOrdinal == ymd2ord(MAXYEAR, 12, 31)

\* the year, then the month, then the day of the ordinal n
ord2year(n) ==
    CHOOSE yy \in (n \div 366)..((n \div 365) + 1) :
        DaysBeforeYear(yy) < n /\ n <= DaysBeforeYear(yy + 1)

ord2month(y, r) ==
    CHOOSE mm \in 1..12 :
        DaysBeforeMonth(y, mm) < r
          /\ r <= DaysBeforeMonth(y, mm) + DaysInMonth(y, mm)

yday2ymd(y, r, m) == <<y, m, r - DaysBeforeMonth(y, m)>>

year2ymd(n, y) ==
    yday2ymd(y, n - DaysBeforeYear(y), ord2month(y, n - DaysBeforeYear(y)))

ord2ymd(n) == year2ymd(n, ord2year(n))

\* Monday = 0 ... Sunday = 6
weekday(dt) == (ymd2ord(dt.year, dt.month, dt.day) + 6) % 7

DateTimeRec(y, m, d, h, mi, s, us) ==
    [year |-> y, month |-> m, day |-> d, hour |-> h, minute |-> mi,
     second |-> s, microsecond |-> us]

\* datetime(y, m, d, h, mi, s, us) on integers: the range validation
DateTimeValid(y, m, d, h, mi, s, us) ==
    /\ y \in MINYEAR..MAXYEAR
    /\ m \in 1..12
    /\ d \in 1..DaysInMonth(y, m)
    /\ h \in 0..23
    /\ mi \in 0..59
    /\ s \in 0..59
    /\ us \in 0..(Micro - 1)

\* datetime(...) on Python numbers: TypeError for a float argument,
\* ValueError for an integer out of range
datetime(y, m, d, h, mi, s, us) ==
    IF \E a \in {y, m, d, h, mi, s, us} : ~IsInt(a) THEN Raise("TypeError")
    ELSE IF ~DateTimeValid(y.w, m.w, d.w, h.w, mi.w, s.w, us.w)
    THEN Raise("ValueError")
    ELSE Ok(DateTimeRec(y.w, m.w, d.w, h.w, mi.w, s.w, us.w))

\* f millionths times c (c <= 86400) as seconds and microseconds
FracTimes(f, c) ==
    LET a == (f \div 1000) * c
        b == (f % 1000) * c
        t == (a % 1000) * 1000 + b
    IN [s |-> (a \div 1000) + (t \div Micro), us |-> t % Micro]

TimeDeltaRec(d, s, us) ==
    LET s1 == s + (us \div Micro)
    IN [days |-> d + (s1 \div 86400), seconds |-> s1 % 86400,
        microseconds |-> us % Micro]

\* timedelta(days=, hours=, minutes=, seconds=) on Python numbers
timedelta(days, hours, minutes, seconds) ==
    LET fd == FracTimes(days.f, 86400)
        fh == FracTimes(hours.f, 3600)
        fm == FracTimes(minutes.f, 60)
    IN TimeDeltaRec(days.w,
                    hours.w * 3600 + minutes.w * 60 + seconds.w
                      + fd.s + fh.s + fm.s,
                    fd.us + fh.us + fm.us + seconds.f)

\* datetime + timedelta: OverflowError outside MINYEAR..MAXYEAR
DateTimeOfOrdinal(ymd, t) ==
    DateTimeRec(ymd[1], ymd[2], ymd[3], t.seconds \div 3600,
                (t.seconds % 3600) \div 60, t.seconds % 60, t.microseconds)

DateTimeNormal(t) ==
    IF t.days < 1 \/ t.days > MaxOrdinal THEN Raise("OverflowError")
    ELSE Ok(DateTimeOfOrdinal(ord2ymd(t.days), t))

DateTimeAdd(dt, td) ==
    DateTimeNormal(TimeDeltaRec(ymd2ord(dt.year, dt.month, dt.day) + td.days,
                                dt.hour * 3600 + dt.minute * 60 + dt.second
                                  + td.seconds,
                                dt.microsecond + td.microseconds))

\* datetime - datetime
DateTimeSub(a, b) ==
    TimeDeltaRec(ymd2ord(a.year, a.month, a.day)
                   - ymd2ord(b.year, b.month, b.day),
                 (a.hour * 3600 + a.minute * 60 + a.second)
                   - (b.hour * 3600 + b.minute * 60 + b.second),
                 a.microsecond - b.microsecond)

\* ------------------------------------------------------------------------
\* Strings: sequences of chunks.  A chunk is one character, or a whole
\* alphabetic word (a token name, a day or month name, AM/PM) that contains
\* neither "0" nor " " nor a quote.
\* ------------------------------------------------------------------------
Dig == <<"0", "1", "2", "3", "4", "5", "6", "7", "8", "9">>

IsDigit(c) == \E i \in 1..10 : Dig[i] = c
DigitVal(c) == (CHOOSE i \in 1..10 : Dig[i] = c) - 1
AllDigits(s) == \A i \in 1..Len(s) : IsDigit(s[i])

RECURSIVE NumVal(_)
NumVal(s) ==
    IF s = <<>> THEN 0
    ELSE NumVal(SubSeq(s, 1, Len(s) - 1)) * 10 + DigitVal(s[Len(s)])

D2(n) == <<Dig[((n \div 10) % 10) + 1], Dig[(n % 10) + 1]>>
D4(n) == D2(n \div 100) \o D2(n % 100)
D6(n) == D2(n \div 10000) \o D2((n \div 100) % 100) \o D2(n % 100)

\* s.lstrip(c)
RECURSIVE lstrip(_, _)
lstrip(s, c) ==
    IF s # <<>> /\ Head(s) = c THEN lstrip(Tail(s), c) ELSE s

RECURSIVE rstrip(_, _)
rstrip(s, c) ==
    IF s # <<>> /\ s[Len(s)] = c THEN rstrip(SubSeq(s, 1, Len(s) - 1), c)
    ELSE s

\* s.strip(c)
strip(s, c) == rstrip(lstrip(s, c), c)

\* s.split(c): the pieces between the occurrences of c, empty ones included
RECURSIVE split(_, _)
splitAt(s, c, i) ==
    <<SubSeq(s, 1, i - 1)>> \o split(SubSeq(s, i + 1, Len(s)), c)

split(s, c) ==
    IF \A i \in 1..Len(s) : s[i] # c THEN <<s>>
    ELSE splitAt(s, c, CHOOSE j \in 1..Len(s) :
                           s[j] = c /\ \A h \in 1..(j - 1) : s[h] # c)

\* s[:n]
Prefix(s, n) == SubSeq(s, 1, IF n < Len(s) THEN n ELSE Len(s))

\* sep.join(parts)
RECURSIVE join(_, _)
join(sep, parts) ==
    IF parts = <<>> THEN <<>>
    ELSE IF Len(parts) = 1 THEN parts[1]
    ELSE parts[1] \o sep \o join(sep, Tail(parts))

\* to_python() of a String leaf keeps the quotes around the text
Quote == "\""
Quoted(s) == <<Quote>> \o s \o <<Quote>>

\* to_python(): numbers and other expressions as they are, strings quoted,
\* lists element by element
RECURSIVE to_python(_)
to_python(e) ==
    IF IsStr(e) THEN Str(Quoted(e.s))
    ELSE IF IsList(e)
    THEN List([i \in 1..Len(e.items) |-> to_python(e.items[i])])
    ELSE e

\* ------------------------------------------------------------------------
\* The tables
\* ------------------------------------------------------------------------
TIME_INCREMENTS ==
    "Year"    :> <<1, 0, 0, 0, 0, 0>> @@
    "Quarter" :> <<0, 3, 0, 0, 0, 0>> @@
    "Month"   :> <<0, 1, 0, 0, 0, 0>> @@
    "Week"    :> <<0, 0, 7, 0, 0, 0>> @@
    "Day"     :> <<0, 0, 1, 0, 0, 0>> @@
    "Hour"    :> <<0, 0, 0, 1, 0, 0>> @@
    "Minute"  :> <<0, 0, 0, 0, 1, 0>> @@
    "Second"  :> <<0, 0, 0, 0, 0, 1>>

\* a format is a sequence of directives and literal characters
DATE_STRING_FORMATS ==
    "Date"           :> <<"%c">> @@
    "DateShort"      :> <<"%a", " ", "%d", " ", "%b", " ", "%Y">> @@
    "Time"           :> <<"%X">> @@
    "DateTime"       :> <<"%c", " ", "%X">> @@
    "DateTimeShort"  :> <<"%a", " ", "%d", " ", "%b", " ", "%Y", " ", "%X">> @@
    "Year"           :> <<"%Y">> @@
    "YearShort"      :> <<"%y">> @@
    "MonthName"      :> <<"%B">> @@
    "MonthNameShort" :> <<"%b">> @@
    "Month"          :> <<"%m">> @@
    "MonthShort"     :> <<"%m">> @@
    "DayName"        :> <<"%A">> @@
    "DayNameShort"   :> <<"%a">> @@
    "Day"            :> <<"%d">> @@
    "DayShort"       :> <<"%d">> @@
    "Hour"           :> <<"%H">> @@
    "Hour12"         :> <<"%I">> @@
    "Hour24"         :> <<"%H">> @@
    "HourShort"      :> <<"%H">> @@
    "Hour12Short"    :> <<"%I">> @@
    "Hour24Short"    :> <<"%H">> @@
    "AMPM"           :> <<"%p">> @@
    "Minute"         :> <<"%M">> @@
    "MinuteShort"    :> <<"%M">> @@
    "Second"         :> <<"%S">> @@
    "SecondShort"    :> <<"%S">> @@
    "SecondExact"    :> <<"%S", ".", "%f">>

\* str(p) in TABLE.keys(): p is the one-chunk string of a key
IsKey(p, table) == Len(p) = 1 /\ p[1] \in DOMAIN table

\* str(p).endswith("Short"), for the keys of DATE_STRING_FORMATS
EndsWithShort(name) ==
    name \in {"DateShort", "DateTimeShort", "YearShort", "MonthNameShort",
              "MonthShort", "DayNameShort", "DayShort", "HourShort",
              "Hour12Short", "Hour24Short", "MinuteShort", "SecondShort"}

\* ------------------------------------------------------------------------
\* datetime.strftime and datetime.strptime (C locale)
\* ------------------------------------------------------------------------
DayNames == <<"Monday", "Tuesday", "Wednesday", "Thursday", "Friday",
              "Saturday", "Sunday">>
DayAbbr == <<"Mon", "Tue", "Wed", "Thu", "Fri", "Sat", "Sun">>
MonthNames == <<"January", "February", "March", "April", "May", "June",
                "July", "August", "September", "October", "November",
                "December">>
MonthAbbr == <<"Jan", "Feb", "Mar", "Apr", "May", "Jun", "Jul", "Aug",
               "Sep", "Oct", "Nov", "Dec">>

Hour12Of(h) == IF h % 12 = 0 THEN 12 ELSE h % 12

\* %c is "%a %b %e %H:%M:%S %Y" and %X is "%H:%M:%S"
ExpandDirective(d) ==
    IF d = "%c"
    THEN <<"%a", " ", "%b", " ", "%e", " ", "%H", ":", "%M", ":", "%S", " ",
           "%Y">>
    ELSE IF d = "%X" THEN <<"%H", ":", "%M", ":", "%S">>
    ELSE <<d>>

RECURSIVE ExpandFormat(_)
ExpandFormat(fmt) ==
    IF fmt = <<>> THEN <<>>
    ELSE ExpandDirective(Head(fmt)) \o ExpandFormat(Tail(fmt))

RenderDirective(dt, d) ==
    CASE d = "%Y" -> D4(dt.year)
      [] d = "%y" -> D2(dt.year % 100)
      [] d = "%m" -> D2(dt.month)
      [] d = "%d" -> D2(dt.day)
      [] d = "%e" -> IF dt.day < 10 THEN <<" ", Dig[dt.day + 1]>>
                     ELSE D2(dt.day)
      [] d = "%H" -> D2(dt.hour)
      [] d = "%I" -> D2(Hour12Of(dt.hour))
      [] d = "%M" -> D2(dt.minute)
      [] d = "%S" -> D2(dt.second)
      [] d = "%f" -> D6(dt.microsecond)
      [] d = "%p" -> IF dt.hour < 12 THEN <<"AM">> ELSE <<"PM">>
      [] d = "%A" -> <<DayNames[weekday(dt) + 1]>>
      [] d = "%a" -> <<DayAbbr[weekday(dt) + 1]>>
      [] d = "%B" -> <<MonthNames[dt.month]>>
      [] d = "%b" -> <<MonthAbbr[dt.month]>>
      [] OTHER -> <<d>>

RECURSIVE RenderFormat(_, _)
RenderFormat(dt, fmt) ==
    IF fmt = <<>> THEN <<>>
    ELSE RenderDirective(dt, Head(fmt)) \o RenderFormat(dt, Tail(fmt))

\* date.strftime(fmt): years before 1900 raise ValueError
strftime(dt, fmt) ==
    IF dt.year < 1900 THEN Raise("ValueError")
    ELSE Ok(RenderFormat(dt, ExpandFormat(fmt)))

NumericDirectives == {"%d", "%e", "%m", "%H", "%M", "%S", "%I", "%y", "%Y", "%f"}
NameDirectives == {"%a", "%A", "%b", "%B", "%p"}

\* the digit counts strptime's pattern for a directive tries, longest first
DirectiveLens(d) ==
    CASE d = "%Y" -> <<4>>
      [] d = "%y" -> <<2>>
      [] d = "%f" -> <<6, 5, 4, 3, 2, 1>>
      [] OTHER -> <<2, 1>>

\* the values the pattern of directive d accepts with n digits
DirectiveAccepts(d, n, v) ==
    CASE d \in {"%d", "%e"} -> IF n = 2 THEN v \in 1..31 ELSE v \in 1..9
      [] d \in {"%m", "%I"} -> IF n = 2 THEN v \in 1..12 ELSE v \in 1..9
      [] d = "%H" -> IF n = 2 THEN v \in 0..23 ELSE v \in 0..9
      [] d = "%M" -> IF n = 2 THEN v \in 0..59 ELSE v \in 0..9
      [] d = "%S" -> IF n = 2 THEN v \in 0..61 ELSE v \in 0..9
      [] OTHER -> TRUE

IndexOf(names, c) == CHOOSE i \in 1..Len(names) : names[i] = c
InSeq(names, c) == \E i \in 1..Len(names) : names[i] = c

NameAccepts(d, c) ==
    CASE d = "%a" -> InSeq(DayAbbr, c)
      [] d = "%A" -> InSeq(DayNames, c)
      [] d = "%b" -> InSeq(MonthAbbr, c)
      [] d = "%B" -> InSeq(MonthNames, c)
      [] d = "%p" -> c \in {"AM", "PM"}

\* the fields strptime has found so far
StrpFail == [ok |-> FALSE]
StrpStart == [ok |-> TRUE, year |-> 1900, month |-> 1, day |-> 1, hour |-> 0,
              minute |-> 0, second |-> 0, fraction |-> 0, hour12 |-> 0,
              ampm |-> ""]

Pad6(n, v) == v * <<100000, 10000, 1000, 100, 10, 1>>[n]

StrpStore(acc, d, n, v) ==
    CASE d = "%Y" -> [acc EXCEPT !.year = v]
      [] d = "%y" -> [acc EXCEPT !.year = IF v < 69 THEN 2000 + v ELSE 1900 + v]
      [] d = "%m" -> [acc EXCEPT !.month = v]
      [] d \in {"%d", "%e"} -> [acc EXCEPT !.day = v]
      [] d = "%H" -> [acc EXCEPT !.hour = v]
      [] d = "%I" -> [acc EXCEPT !.hour12 = v]
      [] d = "%M" -> [acc EXCEPT !.minute = v]
      [] d = "%S" -> [acc EXCEPT !.second = v]
      [] d = "%f" -> [acc EXCEPT !.fraction = Pad6(n, v)]

StrpStoreName(acc, d, c) ==
    CASE d = "%b" -> [acc EXCEPT !.month = IndexOf(MonthAbbr, c)]
      [] d = "%B" -> [acc EXCEPT !.month = IndexOf(MonthNames, c)]
      [] d = "%p" -> [acc EXCEPT !.ampm = c]
      [] OTHER -> acc

RECURSIVE StrpMatch(_, _, _)
RECURSIVE StrpNumber(_, _, _, _)

\* the first way, longest alternative first, of matching the whole of text
\* against fmt
StrpMatch(text, fmt, acc) ==
    IF fmt = <<>> THEN (IF text = <<>> THEN acc ELSE StrpFail)
    ELSE LET d == Head(fmt)
         IN IF d \in NumericDirectives
            THEN StrpNumber(text, fmt, acc, DirectiveLens(d))
            ELSE IF text = <<>> THEN StrpFail
            ELSE IF d \in NameDirectives
            THEN (IF NameAccepts(d, Head(text))
                  THEN StrpMatch(Tail(text), Tail(fmt),
                                 StrpStoreName(acc, d, Head(text)))
                  ELSE StrpFail)
            ELSE IF d = " "
            THEN (IF Head(text) # " " THEN StrpFail
                  ELSE StrpMatch(lstrip(text, " "), Tail(fmt), acc))
            ELSE (IF Head(text) = d
                  THEN StrpMatch(Tail(text), Tail(fmt), acc)
                  ELSE StrpFail)

\* one alternative: the first n characters cand of text as the number
StrpTry(text, fmt, acc, n, cand) ==
    IF Len(text) >= n /\ AllDigits(cand)
         /\ DirectiveAccepts(Head(fmt), n, NumVal(cand))
    THEN StrpMatch(SubSeq(text, n + 1, Len(text)), Tail(fmt),
                   StrpStore(acc, Head(fmt), n, NumVal(cand)))
    ELSE StrpFail

StrpOrElse(r, text, fmt, acc, lens) ==
    IF r.ok THEN r ELSE StrpNumber(text, fmt, acc, Tail(lens))

StrpNumber(text, fmt, acc, lens) ==
    IF lens = <<>> THEN StrpFail
    ELSE StrpOrElse(StrpTry(text, fmt, acc, Head(lens),
                            SubSeq(text, 1, Head(lens))),
                    text, fmt, acc, lens)

\* the hour of the fields found: %I with %p, or %H
StrpHour(r) ==
    IF r.hour12 = 0 THEN r.hour
    ELSE IF r.ampm = "PM" THEN (r.hour12 % 12) + 12
    ELSE r.hour12 % 12

StrpDate(r) ==
    IF ~r.ok THEN Raise("ValueError")
    ELSE datetime(Integer(r.year), Integer(r.month), Integer(r.day),
                  Integer(StrpHour(r)), Integer(r.minute), Integer(r.second),
                  Integer(r.fraction))

\* datetime.strptime(text, fmt): ValueError when text does not match fmt or
\* the fields found are no date
strptime(text, fmt) == StrpDate(StrpMatch(text, ExpandFormat(fmt), StrpStart))

\* dateutil.parser.parse(text), for the texts of the model: a date written
\* year-month-day is read as that date, and a text without a digit raises
\* ValueError
dateutil_parse(text) ==
    StrpDate(StrpMatch(text, <<"%Y", "-", "%m", "-", "%d">>, StrpStart))

\* ------------------------------------------------------------------------
\* class _Date
\* ------------------------------------------------------------------------
\* [1900, 1, 1, 0, 0, 0.]
default_date ==
    <<Integer(1900), Integer(1), Integer(1), Integer(0), Integer(0),
      Real(0, 0)>>

\* datelist += [1900, 1, 1, 0, 0, 0.][len(datelist):]
PadDatelist(datelist) ==
    datelist \o SubSeq(default_date, Len(datelist) + 1, 6)

\* _Date.__init__(datelist, absolute, datestr); None stands for an argument
\* left out.  The result carries the padded datelist too, because += changes
\* the caller's list (or the shared default list) in place.
\* datetime(datelist[0], ..., int(datelist[5]), int(1e6 * (datelist[5] % 1.)))
DateMade(padded) ==
    IF IsStr(padded[6]) THEN Raise("ValueError")
    ELSE IF ~IsNum(padded[6]) THEN Raise("TypeError")
    ELSE datetime(padded[1], padded[2], padded[3], padded[4], padded[5],
                  Integer(PyInt(padded[6])), Integer(PyFrac(padded[6])))

\* if absolute is not None: self.date += timedelta(seconds=absolute)
DateShifted(made, absolute) ==
    IF made.exc # "" \/ absolute = None THEN made
    ELSE DateTimeAdd(made.v,
                     timedelta(Integer(0), Integer(0), Integer(0), absolute))

\* if datestr is not None: absolute must be None, and the text is parsed
DateParsed(shifted, absolute, datestr) ==
    IF shifted.exc # "" \/ datestr = None THEN shifted
    ELSE IF absolute # None THEN Raise("ValueError")
    ELSE dateutil_parse(datestr.s)

\* DateInitResult with the fields of the date built written back into the
\* list
DateInitResult_writeback(parsed, padded) ==
    [exc |-> parsed.exc, v |-> parsed.v,
     datelist |-> IF parsed.exc # "" THEN padded
                  ELSE <<Integer(parsed.v.year), Integer(parsed.v.month),
                         Integer(parsed.v.day), Integer(parsed.v.hour),
                         Integer(parsed.v.minute),
                         Real(parsed.v.second, parsed.v.microsecond)>>]

DateInitResult(parsed, padded) ==
    [exc |-> parsed.exc, v |-> parsed.v, datelist |-> padded]

DateInitPadded(padded, absolute, datestr) ==
    DateInitResult(DateParsed(DateShifted(DateMade(padded), absolute),
                              absolute, datestr),
                   padded)

Date_init(datelist, absolute, datestr) ==
    DateInitPadded(PadDatelist(datelist), absolute, datestr)

\* _Date.addself(timevec) on a date, giving the new self.date.  A float in
\* timevec makes years and months floats, which datetime() rejects.
\* self.date += timedelta(days=..., hours=..., minutes=..., seconds=...)
addselfDelta(moved, timevec) ==
    IF moved.exc # "" THEN moved
    ELSE DateTimeAdd(moved.v,
                     timedelta(timevec[3], timevec[4], timevec[5],
                               timevec[6]))

\* addselfMoved without the correction of month 0
addselfMoved_nocarry(date, years, months) ==
    datetime(Integer(years), Integer(months), Integer(date.day),
             Integer(date.hour), Integer(date.minute), Integer(date.second),
             Integer(0))

\* if months == 0: months += 12; years -= 1; then the new datetime, without
\* the microseconds
addselfMoved(date, years, months) ==
    datetime(Integer(IF months = 0 THEN years - 1 ELSE years),
             Integer(IF months = 0 THEN months + 12 ELSE months),
             Integer(date.day), Integer(date.hour), Integer(date.minute),
             Integer(date.second), Integer(0))

addself(date, timevec) ==
    IF ~IsInt(timevec[1]) \/ ~IsInt(timevec[2]) THEN Raise("TypeError")
    ELSE addselfDelta(
             addselfMoved(date,
                          date.year + timevec[1].w
                            + ((date.month + timevec[2].w) \div 12),
                          (date.month + timevec[2].w) % 12),
             timevec)

\* _Date.to_list()
to_list(date) ==
    <<Integer(date.year), Integer(date.month), Integer(date.day),
      Integer(date.hour), Integer(date.minute),
      Real(date.second, date.microsecond)>>

\* ------------------------------------------------------------------------
\* _DateFormat.to_datelist
\* ------------------------------------------------------------------------
\* 2208988800 seconds, the distance from 1900-01-01 to 1970-01-01, in days
EpochOffsetDays == 25567

Message(name, tag, args) == [name |-> name, tag |-> tag, args |-> args]

\* what a builtin's call gives: res is Ok(value), Ok(None) or Raise(e), msgs
\* the messages it sent, dflt the default datelist of _Date.__init__ after it
Result(res, msgs, dflt) == [res |-> res, msgs |-> msgs, dflt |-> dflt]

\* time.gmtime(etime - 2208988800)[:5] + [seconds + etime % 1.].  Every
\* number of the model lies inside gmtime's range.
GmtimeFields(ymd, s, f) ==
    <<Integer(ymd[1]), Integer(ymd[2]), Integer(ymd[3]),
      Integer(s \div 3600), Integer((s % 3600) \div 60), Real(s % 60, f)>>

GmtimeDatelist(etime) ==
    GmtimeFields(ord2ymd(ymd2ord(1970, 1, 1) + (etime.w \div 86400)
                           - EpochOffsetDays),
                 etime.w % 86400, etime.f)

\* 1 <= len(etime) <= 6 and all((isinstance(val, float) and i>1)
\*                              or isinstance(val, int) ...)
IsNumericDatelist(items) ==
    /\ Len(items) \in 1..6
    /\ \A i \in 1..Len(items) :
          (IsFloat(items[i]) /\ i - 1 > 1) \/ IsInt(items[i])

\* the numeric-list branch: the anchor (year, month, 1) plus the rest as a
\* timedelta
NumericDtime(dtime) ==
    IF dtime.exc # "" THEN dtime ELSE Ok(to_list(dtime.v))

NumericAnchored(anchor, datelist) ==
    IF anchor.exc # "" THEN anchor
    ELSE NumericDtime(DateTimeAdd(anchor.v,
                                  timedelta(NumMinus1(datelist[3]),
                                            datelist[4], datelist[5],
                                            datelist[6])))

NumericPadded(datelist) ==
    NumericAnchored(datetime(datelist[1], datelist[2], Integer(1),
                             Integer(0), Integer(0), Integer(0), Integer(0)),
                    datelist)

NumericDatelist(items) ==
    NumericPadded(items \o SubSeq(default_date, Len(items) + 1, 6))

Separators == << <<>>, <<" ">>, <<"/">>, <<"-">>, <<".">>, <<",">>, <<":">> >>

\* the candidate templates for the (stripped) token list
RECURSIVE ConcatForms(_)
ConcatForms(tokens) ==
    IF tokens = <<>> THEN <<>>
    ELSE (IF IsKey(Head(tokens), DATE_STRING_FORMATS)
          THEN DATE_STRING_FORMATS[Head(tokens)[1]]
          ELSE Head(tokens)) \o ConcatForms(Tail(tokens))

JoinForms(fields) ==
    [j \in 1..Len(Separators) |-> join(Separators[j], fields)]

Forms(tokens) ==
    IF \A i \in 1..Len(tokens) : IsKey(tokens[i], DATE_STRING_FORMATS)
    THEN JoinForms([i \in 1..Len(tokens) |->
                       DATE_STRING_FORMATS[tokens[i][1]]])
    ELSE <<ConcatForms(tokens)>>

\* the first form that parses text, or ValueError when none does
RECURSIVE TryForms(_, _)
TryRest(r, text, forms) ==
    IF r.exc = "" THEN r ELSE TryForms(text, Tail(forms))

TryForms(text, forms) ==
    IF forms = <<>> THEN Raise("ValueError")
    ELSE TryRest(strptime(text, Head(forms)), text, forms)

IsStringAndTokens(items) ==
    /\ IsStr(items[1])
    /\ IsList(items[2])
    /\ \A i \in 1..Len(items[2].items) : IsStr(items[2].items[i])

\* the branch of a string: the date dateutil read
DatelistOfString(date, dflt) ==
    IF date.exc # "" THEN Result(date, <<>>, dflt)
    ELSE Result(Ok(List(to_list(date.v))), <<>>, dflt)

\* the branch of a list of numbers: r is what the datetime arithmetic gave
DatelistOfNumbers(r, epochtime, form_name, dflt) ==
    IF r.exc = "ValueError"
    THEN Result(Ok(None), <<Message(form_name, "arg", <<epochtime>>)>>, dflt)
    ELSE IF r.exc # "" THEN Result(r, <<>>, dflt)
    ELSE Result(Ok(List(r.v)), <<>>, dflt)

\* the branch of [text, [tokens]]: made is _Date(), date the parsed text
DatelistOfTokens(etime, tokens, made, date, form_name, year_now) ==
    IF made.exc # "" THEN Result(made, <<>>, made.datelist)
    ELSE IF date.exc # ""
    THEN Result(Ok(None),
                <<Message(form_name, "str",
                          <<etime.items[1],
                            List([i \in 1..Len(tokens) |-> Str(tokens[i])])>>)>>,
                made.datelist)
    ELSE IF \A i \in 1..Len(tokens) :
               tokens[i] \notin {<<"Year">>, <<"YearShort">>}
    THEN Result(Ok(List([to_list(date.v) EXCEPT ![1] = Integer(year_now)])),
                <<>>, made.datelist)
    ELSE Result(Ok(List(to_list(date.v))), <<>>, made.datelist)

DatelistOfStripped(etime, tokens, form_name, year_now, dflt) ==
    DatelistOfTokens(etime, tokens, Date_init(dflt, None, None),
                     TryForms(strip(etime.items[1].s, Quote), Forms(tokens)),
                     form_name, year_now)

DatelistOfPython(etime, epochtime, form_name, year_now, dflt) ==
    IF IsNum(etime) THEN Result(Ok(List(GmtimeDatelist(etime))), <<>>, dflt)
    ELSE IF IsStr(etime)
    THEN DatelistOfString(dateutil_parse(strip(etime.s, Quote)), dflt)
    ELSE IF ~IsList(etime)
    THEN Result(Ok(None), <<Message(form_name, "arg", <<etime>>)>>, dflt)
    ELSE IF IsNumericDatelist(etime.items)
    THEN DatelistOfNumbers(NumericDatelist(etime.items), epochtime, form_name,
                           dflt)
    ELSE IF Len(etime.items) = 2
    THEN IF IsStringAndTokens(etime.items)
         THEN DatelistOfStripped(etime,
                                 [i \in 1..Len(etime.items[2].items) |->
                                     strip(etime.items[2].items[i].s, Quote)],
                                 form_name, year_now, dflt)
         ELSE Result(Ok(None),
                     <<Message(form_name, "str",
                               <<etime.items[1], etime.items[2]>>)>>, dflt)
    ELSE Result(Ok(None), <<Message(form_name, "arg", <<epochtime>>)>>, dflt)

\* to_datelist(epochtime, evaluation) of the builtin form_name, with the
\* current year and the default datelist of _Date.__init__
to_datelist(epochtime, form_name, year_now, dflt) ==
    DatelistOfPython(to_python(epochtime), epochtime, form_name, year_now,
                     dflt)

\* ------------------------------------------------------------------------
\* DateList, AbsoluteTime, DateString
\* ------------------------------------------------------------------------
\* DateList.apply
DateList_apply(epochtime, year_now, dflt) ==
    to_datelist(epochtime, "DateList", year_now, dflt)

\* AbsoluteTime.apply_spec
\* tdelta.days * 24 * 60 * 60 + tdelta.seconds, with the microseconds if any
AbsoluteTotal(tdelta, r) ==
    IF tdelta.microseconds = 0
    THEN Result(Ok(Integer(tdelta.days * 86400 + tdelta.seconds)), r.msgs,
                r.dflt)
    ELSE Result(Ok(Real(tdelta.days * 86400 + tdelta.seconds,
                        tdelta.microseconds)), r.msgs, r.dflt)

AbsoluteOfDate(date, r) ==
    IF date.exc # "" THEN Result(Raise(date.exc), r.msgs, r.dflt)
    ELSE AbsoluteTotal(DateTimeSub(date.v, DateTimeRec(1900, 1, 1, 0, 0, 0, 0)),
                       r)

AbsoluteOfDatelist(r) ==
    IF r.res.exc # "" \/ r.res.v = None THEN r
    ELSE AbsoluteOfDate(Date_init(r.res.v.items, None, None), r)

AbsoluteTime_apply_spec(epochtime, year_now, dflt) ==
    AbsoluteOfDatelist(to_datelist(epochtime, "AbsoluteTime", year_now, dflt))

\* $DateStringFormat
DateStringFormat == List(<<Str(<<"DateTimeShort">>)>>)

\* one element p of pyform rendered: the token's strftime text with the
\* leading zeros of its space-separated parts stripped for a ...Short token
\* (the last part of DateTimeShort excepted), or p itself
StripParts(name, parts) ==
    IF name = "DateTimeShort"
    THEN Ok(join(<<" ">>,
                 [i \in 1..Len(parts) |-> IF i < Len(parts)
                                          THEN lstrip(parts[i], "0")
                                          ELSE parts[i]]))
    ELSE Ok(join(<<" ">>, [i \in 1..Len(parts) |-> lstrip(parts[i], "0")]))

RenderShort(name, tmp) ==
    IF tmp.exc # "" THEN tmp
    ELSE IF EndsWithShort(name) /\ name # "YearShort"
    THEN StripParts(name, split(tmp.v, " "))
    ELSE tmp

RenderToken(date, p) ==
    IF ~IsKey(p, DATE_STRING_FORMATS) THEN Ok(p)
    ELSE RenderShort(p[1], strftime(date, DATE_STRING_FORMATS[p[1]]))

RECURSIVE RenderTokens(_, _)
RenderJoin(first, rest) ==
    IF first.exc # "" THEN first
    ELSE IF rest.exc # "" THEN rest
    ELSE Ok(first.v \o rest.v)

RenderTokens(date, pyform) ==
    IF pyform = <<>> THEN Ok(<<>>)
    ELSE RenderJoin(RenderToken(date, Head(pyform)),
                    RenderTokens(date, Tail(pyform)))

\* DateString.apply
DateStringText(text, r) ==
    IF text.exc # "" THEN Result(text, r.msgs, r.dflt)
    ELSE Result(Ok(Str(text.v)), r.msgs, r.dflt)

\* pyform as a list, each element stripped of its quotes and rendered
DateStringOfDate(date, pyform, r) ==
    IF date.exc # "" THEN Result(Raise(date.exc), r.msgs, r.dflt)
    ELSE IF \E i \in 1..Len(pyform) : ~IsStr(pyform[i])
    THEN Result(Raise("AttributeError"), r.msgs, r.dflt)
    ELSE DateStringText(RenderTokens(date.v,
                                     [i \in 1..Len(pyform) |->
                                         strip(pyform[i].s, Quote)]),
                        r)

DateStringOfForm(pyform, r) ==
    DateStringOfDate(Date_init(r.res.v.items, None, None),
                     IF IsList(pyform) THEN pyform.items ELSE <<pyform>>, r)

DateStringOfDatelist(r, form) ==
    IF r.res.exc # "" \/ r.res.v = None THEN r
    ELSE DateStringOfForm(to_python(form), r)

DateString_apply(epochtime, form, year_now, dflt) ==
    DateStringOfDatelist(to_datelist(epochtime, "DateString", year_now, dflt),
                         form)

\* ------------------------------------------------------------------------
\* DatePlus
\* ------------------------------------------------------------------------
\* a bare number n becomes [[n, "Day"]], a pair [n, unit] becomes [[n, unit]]
NormalizeOffset(pyoff) ==
    IF IsNum(pyoff) THEN List(<<List(<<pyoff, Str(Quoted(<<"Day">>))>>)>>)
    ELSE IF IsList(pyoff) /\ Len(pyoff.items) = 2 /\ IsStr(pyoff.items[2])
    THEN List(<<pyoff>>)
    ELSE pyoff

\* what lambda x: [x[0], x[1].strip('"')] raises on x, "" if nothing
StripPairExc(x) ==
    IF IsStr(x) THEN (IF Len(x.s) < 2 THEN "IndexError" ELSE "")
    ELSE IF ~IsList(x) THEN "TypeError"
    ELSE IF Len(x.items) < 2 THEN "IndexError"
    ELSE IF ~IsStr(x.items[2]) THEN "AttributeError"
    ELSE ""

StripPair(x) ==
    IF IsStr(x) THEN <<Str(<<x.s[1]>>), strip(<<x.s[2]>>, Quote)>>
    ELSE <<x.items[1], strip(x.items[2].s, Quote)>>

\* pyoff = map(lambda x: [x[0], x[1].strip('"')], pyoff)
FirstBadPair(items) ==
    CHOOSE j \in 1..Len(items) :
        /\ StripPairExc(items[j]) # ""
        /\ \A h \in 1..(j - 1) : StripPairExc(items[h]) = ""

StripOffsets(pyoff) ==
    IF IsStr(pyoff) THEN Raise("IndexError")
    ELSE IF ~IsList(pyoff) THEN Raise("TypeError")
    ELSE IF \E i \in 1..Len(pyoff.items) : StripPairExc(pyoff.items[i]) # ""
    THEN Raise(StripPairExc(pyoff.items[FirstBadPair(pyoff.items)]))
    ELSE Ok([i \in 1..Len(pyoff.items) |-> StripPair(pyoff.items[i])])

\* o[1] in TIME_INCREMENTS.keys() and o[0] is a number, for every o
ValidOffsets(pairs) ==
    \A i \in 1..Len(pairs) :
        IsKey(pairs[i][2], TIME_INCREMENTS) /\ IsNum(pairs[i][1])

\* [o[0] * TIME_INCREMENTS[o[1]][i] for i in range(6)]
Timevec(o) ==
    [i \in 1..6 |-> NumTimes(o[1], TIME_INCREMENTS[o[2][1]][i])]

\* for o in pyoff: idate.addself(...)
RECURSIVE AddOffsets(_, _)
AddRest(r, pairs) ==
    IF r.exc # "" THEN r ELSE AddOffsets(r.v, Tail(pairs))

\* AddOffsets taking the pairs from the last to the first
RECURSIVE AddOffsets_reversed(_, _)
AddOffsets_reversed(date, pairs) ==
    IF pairs = <<>> THEN Ok(date)
    ELSE LET r == addself(date, Timevec(pairs[Len(pairs)]))
         IN IF r.exc # "" THEN r
            ELSE AddOffsets_reversed(r.v, SubSeq(pairs, 1, Len(pairs) - 1))

AddOffsets(date, pairs) ==
    IF pairs = <<>> THEN Ok(date)
    ELSE AddRest(addself(date, Timevec(Head(pairs))), pairs)

Expression(head, args) == [k |-> "expr", head |-> head, args |-> args]

\* DatePlusResult without the cut to date_prec fields
DatePlusResult_uncut(date_prec, fields) ==
    IF IsInt(date_prec) THEN List(fields)
    ELSE IF date_prec = Str(<<"absolute">>)
    THEN Expression("AbsoluteTime", <<List(fields)>>)
    ELSE Expression("DateString", <<List(fields)>>)

\* the result in the shape of the date argument: the first date_prec fields
\* for a list of date_prec elements, AbsoluteTime[fields] for a number,
\* DateString[{fields}] for a text
DatePlusResult(date_prec, fields) ==
    IF IsInt(date_prec) THEN List(Prefix(fields, date_prec.w))
    ELSE IF date_prec = Str(<<"absolute">>)
    THEN Expression("AbsoluteTime", <<List(fields)>>)
    ELSE Expression("DateString", <<List(fields)>>)

\* DatePlus.apply: the expression it returns, not yet evaluated
\* idate and date_prec, by the kind of the date argument
DatePlusIdate(pydate, dflt) ==
    IF IsList(pydate) THEN Date_init(pydate.items, None, None)
    ELSE IF IsNum(pydate) THEN Date_init(dflt, pydate, None)
    ELSE Date_init(dflt, None, Str(strip(pydate.s, Quote)))

DatePrec(pydate) ==
    IF IsList(pydate) THEN Integer(Len(pydate.items))
    ELSE IF IsNum(pydate) THEN Str(<<"absolute">>)
    ELSE Str(<<"string">>)

DatePlusMoved(moved, pydate, dflt1) ==
    IF moved.exc # "" THEN Result(moved, <<>>, dflt1)
    ELSE Result(Ok(DatePlusResult(DatePrec(pydate), to_list(moved.v))), <<>>,
                dflt1)

DatePlusOffsets(idate, pyoff, pydate, off, dflt1) ==
    IF pyoff.exc # "" THEN Result(pyoff, <<>>, dflt1)
    ELSE IF ~ValidOffsets(pyoff.v)
    THEN Result(Ok(None), <<Message("DatePlus", "inc", <<off>>)>>, dflt1)
    ELSE DatePlusMoved(AddOffsets(idate.v, pyoff.v), pydate, dflt1)

DatePlusOfIdate(idate, dflt1, pydate, off) ==
    IF idate.exc # "" THEN Result(Raise(idate.exc), <<>>, dflt1)
    ELSE DatePlusOffsets(idate, StripOffsets(NormalizeOffset(to_python(off))),
                         pydate, off, dflt1)

DatePlusOfDate(idate, pydate, off, dflt) ==
    DatePlusOfIdate(idate, IF IsList(pydate) THEN dflt ELSE idate.datelist,
                    pydate, off)

DatePlusOfPython(pydate, date, off, dflt) ==
    IF ~(IsList(pydate) \/ IsNum(pydate) \/ IsStr(pydate))
    THEN Result(Ok(None), <<Message("DatePlus", "date", <<date>>)>>, dflt)
    ELSE DatePlusOfDate(DatePlusIdate(pydate, dflt), pydate, off, dflt)

DatePlus_apply(date, off, year_now, dflt) ==
    DatePlusOfPython(to_python(date), date, off, dflt)

\* the evaluation of what a builtin returned: AbsoluteTime[list] by
\* apply_spec, DateString[list] by the rule to DateString[list,
\* $DateStringFormat]; anything else is a value already
EvaluateJoin(r, n) == Result(n.res, r.msgs \o n.msgs, n.dflt)

Evaluate(r, year_now) ==
    IF r.res.exc # "" \/ r.res.v.k # "expr" THEN r
    ELSE EvaluateJoin(r, IF r.res.v.head = "AbsoluteTime"
                         THEN AbsoluteTime_apply_spec(r.res.v.args[1],
                                                      year_now, r.dflt)
                         ELSE DateString_apply(r.res.v.args[1],
                                               DateStringFormat, year_now,
                                               r.dflt))

\* ------------------------------------------------------------------------
\* DateDifference
\* ------------------------------------------------------------------------
\* a / float(b) when b does not divide a: the quotient, kept as the pair
Quotient(a, b) == [k |-> "quotient", num |-> a, den |-> b]

\* intdiv(a, b): 'exact integer division where possible'
intdiv(a, b) ==
    IF a.f = 0 /\ a.w % b = 0
    THEN [k |-> a.k, w |-> a.w \div b, f |-> 0]
    ELSE Quotient(a, b)

\* idate, from date1 (the text branch reads pydate2)
DifferenceIdate(pydate1, pydate2, dflt) ==
    IF IsList(pydate1) THEN Date_init(pydate1.items, None, None)
    ELSE IF IsNum(pydate1) THEN Date_init(dflt, pydate1, None)
    ELSE IF ~IsStr(pydate2)
    THEN [exc |-> "AttributeError", v |-> None, datelist |-> dflt]
    ELSE Date_init(dflt, None, Str(strip(pydate2.s, Quote)))

\* fdate, from date2 (the text branch tests pydate1)
DifferenceFdate(pydate1, pydate2, dflt) ==
    IF IsList(pydate2) THEN Date_init(pydate2.items, None, None)
    ELSE IF IsNum(pydate2) THEN Date_init(dflt, pydate2, None)
    ELSE IF ~IsStr(pydate2)
    THEN [exc |-> "AttributeError", v |-> None, datelist |-> dflt]
    ELSE Date_init(dflt, None, Str(strip(pydate2.s, Quote)))

\* the result for one unit; "Minute" reads the undefined name secods, and a
\* unit outside the table leaves result unassigned
DifferenceResult(unit, seconds) ==
    CASE unit = <<"Year">> ->
           Ok(List(<<intdiv(seconds, 365 * 24 * 60 * 60), Str(unit)>>))
      [] unit = <<"Quarter">> ->
           Ok(List(<<intdiv(seconds, 365 * 6 * 60 * 60), Str(unit)>>))
      [] unit = <<"Month">> ->
           Ok(List(<<intdiv(seconds, 365 * 2 * 60 * 60), Str(unit)>>))
      [] unit = <<"Week">> ->
           Ok(List(<<intdiv(seconds, 7 * 24 * 60 * 60), Str(unit)>>))
      [] unit = <<"Day">> -> Ok(intdiv(seconds, 24 * 60 * 60))
      [] unit = <<"Hour">> ->
           Ok(List(<<intdiv(seconds, 60 * 60), Str(unit)>>))
      [] unit = <<"Minute">> -> Raise("NameError")
      [] unit = <<"Second">> -> Ok(List(<<seconds, Str(unit)>>))
      [] OTHER -> Raise("UnboundLocalError")

\* DateDifference.apply
\* seconds = int(tdelta.total_seconds()) when whole, else the float
DifferenceSeconds(tdelta) ==
    IF tdelta.microseconds = 0
    THEN Integer(tdelta.days * 86400 + tdelta.seconds)
    ELSE Real(tdelta.days * 86400 + tdelta.seconds, tdelta.microseconds)

\* the 'inc' message for a unit outside the table does not return
DifferenceUnit(unit, units, seconds, dflt2) ==
    Result(DifferenceResult(unit, seconds),
           IF IsKey(unit, TIME_INCREMENTS) THEN <<>>
           ELSE <<Message("DateDifference", "inc", <<units>>)>>,
           dflt2)

DifferenceOfUnits(pyunits, units, seconds, dflt2) ==
    IF IsList(pyunits) THEN Result(Raise("NameError"), <<>>, dflt2)
    ELSE IF ~IsStr(pyunits) THEN Result(Raise("TypeError"), <<>>, dflt2)
    ELSE DifferenceUnit(strip(pyunits.s, Quote), units, seconds, dflt2)

DifferenceOfFdate(idate, fdate, dflt2, units) ==
    IF fdate.exc # "" THEN Result(Raise(fdate.exc), <<>>, dflt2)
    ELSE DifferenceOfUnits(to_python(units), units,
                           DifferenceSeconds(DateTimeSub(fdate.v, idate.v)),
                           dflt2)

DifferenceOfSecond(idate, fdate, pydate2, dflt1, units) ==
    DifferenceOfFdate(idate, fdate,
                      IF IsList(pydate2) THEN dflt1 ELSE fdate.datelist, units)

DifferenceOfIdate(idate, dflt1, pydate1, pydate2, date2, units) ==
    IF idate.exc # "" THEN Result(Raise(idate.exc), <<>>, dflt1)
    ELSE IF ~(IsList(pydate2) \/ IsNum(pydate2) \/ IsStr(pydate1))
    THEN Result(Ok(None), <<Message("DateDifference", "date", <<date2>>)>>,
                dflt1)
    ELSE DifferenceOfSecond(idate, DifferenceFdate(pydate1, pydate2, dflt1),
                            pydate2, dflt1, units)

DifferenceOfFirst(idate, pydate1, pydate2, date2, units, dflt) ==
    DifferenceOfIdate(idate, IF IsList(pydate1) THEN dflt ELSE idate.datelist,
                      pydate1, pydate2, date2, units)

DifferenceOfPython(pydate1, pydate2, date1, date2, units, dflt) ==
    IF ~(IsList(pydate1) \/ IsNum(pydate1) \/ IsStr(pydate1))
    THEN Result(Ok(None), <<Message("DateDifference", "date", <<date1>>)>>,
                dflt)
    ELSE DifferenceOfFirst(DifferenceIdate(pydate1, pydate2, dflt), pydate1,
                           pydate2, date2, units, dflt)

DateDifference_apply(date1, date2, units, dflt) ==
    DifferenceOfPython(to_python(date1), to_python(date2), date1, date2,
                       units, dflt)

\* ------------------------------------------------------------------------
\* The arguments the builtins are called with
\* ------------------------------------------------------------------------
\* the amounts of an offset range over -MaxAmount..MaxAmount
MaxAmount == 2
\* the longest list of (amount, unit) pairs
MaxPairs == 2
\* how often the current year changes
MaxTicks == 1

Ints(s) == [i \in 1..Len(s) |-> Integer(s[i])]
Token(name) == Str(<<name>>)

Years == {1903, 1904}
Months == {1, 2, 12}
Days == {1, 29, 31}

\* date lists of one, two and three integers; some are no calendar date
PlainLists ==
    {Ints(<<y>>) : y \in Years}
      \cup {Ints(<<y, m>>) : y \in Years, m \in Months}
      \cup {Ints(<<y, m, d>>) : y \in Years, m \in Months, d \in Days}

\* longer lists, lists with fractional or out-of-range fields
SpecialLists ==
    {Ints(<<1904, 1, 32>>), Ints(<<1904, 3, 0>>),
     Ints(<<1904, 1>>) \o <<Real(1, 500000)>>,
     Ints(<<1904, 1, 31, 0>>), Ints(<<1904, 1, 31, 12, 30>>),
     Ints(<<1904, 12, 31, 9, 5, 7>>),
     Ints(<<1904, 10, 10, 10, 10, 10>>),
     Ints(<<1904, 2, 29, 23, 59>>) \o <<Real(59, 500000)>>,
     Ints(<<1903, 1, 1, 24>>)}

\* lists that are no date specification
BadLists ==
    {Ints(<<1904, 13>>), <<Real(1904, 0), Integer(1)>>,
     <<Real(1, 500000), Integer(2)>>, Ints(<<1904, 1, 1, 0, 0, 0, 0>>),
     <<Str(<<"a", "b">>), Integer(5)>>, <<>>}

Text1 == <<"1", "9", "0", "4", "-", "0", "2", "-", "2", "9">>
Text2 == <<"1", "9", "0", "3", "-", "1", "2", "-", "3", "1">>
Texts == {Str(Text1), Str(Text2), Str(<<"n", "o">>)}

Absolutes == {Integer(0), Integer(131155200), Real(1000, 500000)}

TokenList(s) == List([i \in 1..Len(s) |-> Str(s[i])])

\* text paired with a token specification
TextsWithFormat ==
    {List(<<Str(<<"3", "1", "/", "1", "0", "/", "9", "1">>),
            TokenList(<< <<"Day">>, <<"Month">>, <<"YearShort">> >>)>>),
     List(<<Str(<<"3", "1", " ", "1", "0", "/", "9", "1">>),
            TokenList(<< <<"Day">>, <<" ">>, <<"Month">>, <<"/">>,
                         <<"YearShort">> >>)>>),
     List(<<Str(<<"5", "/", "1", "8">>),
            TokenList(<< <<"Month">>, <<"Day">> >>)>>),
     List(<<Str(<<"5", "/", "1", "8">>),
            TokenList(<< <<"Year">>, <<"Day">> >>)>>),
     List(<<Str(<<"x">>), TokenList(<< <<"Day">>, <<"-">> >>)>>)}

Others == {Expression("f", <<>>)}

NumericDates == {List(l) : l \in PlainLists \cup SpecialLists}

\* every date argument
DateArgs ==
    NumericDates \cup {List(l) : l \in BadLists} \cup Texts \cup Absolutes
      \cup TextsWithFormat \cup Others

\* the dates AbsoluteTime is tried on: those before 1968, whose seconds
\* since 1900 stay below 2^31
EarlyDateArgs == DateArgs \ TextsWithFormat

\* the dates DateString is tried on
FewDates ==
    {List(l) : l \in SpecialLists} \cup Texts \cup Absolutes \cup Others
      \cup {List(Ints(<<1904, 13>>)), List(Ints(<<1903, 2, 29>>)),
            List(Ints(<<1904, 1, 31>>)), List(Ints(<<1904, 3, 4>>))}

\* the dates DateDifference is tried on
DifferenceDates ==
    Texts \cup Absolutes \cup Others
      \cup {List(Ints(<<1904, 1, 31>>)), List(Ints(<<1903, 2, 29>>)),
            List(Ints(<<1904, 12, 31, 9, 5, 7>>)),
            List(Ints(<<1904, 2, 29, 23, 59>>) \o <<Real(59, 500000)>>),
            List(Ints(<<1903>>))}

\* the dates DatePlus is tried on with a list of several pairs
FoldDates ==
    {List(Ints(<<1903>>)), List(Ints(<<1904, 12>>)),
     List(Ints(<<1903, 1, 31>>)), List(Ints(<<1904, 1, 31>>)),
     List(Ints(<<1904, 2, 29>>)), List(Ints(<<1904, 12, 31, 9, 5, 7>>)),
     Str(Text1), Integer(131155200)}

\* the format arguments: each token alone, some lists, a non-string
FormArgs ==
    {Token(n) : n \in DOMAIN DATE_STRING_FORMATS}
      \cup {DateStringFormat,
            TokenList(<< <<"Day">>, <<" ">>, <<"MonthName">>, <<" ">>,
                         <<"Year">> >>),
            TokenList(<< <<"DayName">>, <<" ", " ">>, <<"MonthShort">>,
                         <<"-">>, <<"YearShort">> >>),
            TokenList(<< <<"0">>, <<"MinuteShort">>, <<"0">> >>),
            Integer(1)}

UnitNames == DOMAIN TIME_INCREMENTS
Amounts == (0 - MaxAmount)..MaxAmount

Pair(a, u) == List(<<a, Token(u)>>)

\* the lists of up to MaxPairs (amount, unit) pairs
PairLists ==
    UNION {[1..n -> {Pair(Integer(a), u) : a \in 1..MaxAmount,
                                           u \in {"Month", "Day"}}] :
           n \in 2..MaxPairs}

\* the offset arguments: a number, one pair, and lists that are no offset
OffArgs ==
    {Integer(a) : a \in Amounts}
      \cup {Pair(Integer(a), u) : a \in Amounts,
                                  u \in UnitNames \cup {"Fortnight"}}
      \cup {Real(1, 500000), Pair(Real(1, 0), "Day"),
            Pair(Token("x"), "Day"), List(<<>>),
            List(<<Pair(Integer(1), "Day")>>),
            List(<<Pair(Integer(1), "Day"), Pair(Integer(1), "Fortnight")>>),
            List(<<Integer(1), Integer(2)>>), Token("Day")}

\* the units arguments
UnitArgs ==
    {Token(u) : u \in UnitNames \cup {"Fortnight"}}
      \cup {TokenList(<< <<"Day">>, <<"Hour">> >>),
            TokenList(<< <<"Year">>, <<"Month">>, <<"Day">> >>),
            TokenList(<< <<"Day">>, <<"Fortnight">> >>),
            TokenList(<< <<"Day">> >>)}

\* ------------------------------------------------------------------------
\* The program: the evaluator calls one builtin at a time
\* ------------------------------------------------------------------------
VARIABLES
    pc,                \* "idle", or "done" after a builtin has returned
    call,              \* the builtin called last and its arguments
    outcome,           \* what it gave: Ok(value), Ok(None) or Raise(e)
    messages,          \* the messages it sent
    default_datelist,  \* the default list of _Date.__init__(datelist = [])
    year_now,          \* datetime.today().year
    datelist_before    \* history: the default list as the last call found it

vars ==
    <<pc, call, outcome, messages, default_datelist, year_now,
      datelist_before>>

NoCall == [op |-> "", args |-> <<>>]

Init ==
    /\ pc = "idle"
    /\ call = NoCall
    /\ outcome = Ok(None)
    /\ messages = <<>>
    /\ default_datelist = <<>>
    /\ year_now = 2026
    /\ datelist_before = <<>>

\* the call of a builtin and the evaluation of what it returned
Called(op, args, r) ==
    /\ pc = "idle"
    /\ pc' = "done"
    /\ call' = [op |-> op, args |-> args]
    /\ outcome' = r.res
    /\ messages' = r.msgs
    /\ default_datelist' = r.dflt
    /\ datelist_before' = default_datelist
    /\ UNCHANGED year_now

DateList(epochtime) ==
    Called("DateList", <<epochtime>>,
           DateList_apply(epochtime, year_now, default_datelist))

AbsoluteTime(epochtime) ==
    Called("AbsoluteTime", <<epochtime>>,
           AbsoluteTime_apply_spec(epochtime, year_now, default_datelist))

DateString(epochtime, form) ==
    Called("DateString", <<epochtime, form>>,
           DateString_apply(epochtime, form, year_now, default_datelist))

DatePlus(date, off) ==
    Called("DatePlus", <<date, off>>,
           Evaluate(DatePlus_apply(date, off, year_now, default_datelist),
                    year_now))

DateDifference(date1, date2, units) ==
    Called("DateDifference", <<date1, date2, units>>,
           DateDifference_apply(date1, date2, units, default_datelist))

\* the evaluator takes the result and is ready for the next call
Return ==
    /\ pc = "done"
    /\ pc' = "idle"
    /\ call' = NoCall
    /\ outcome' = Ok(None)
    /\ messages' = <<>>
    /\ datelist_before' = default_datelist
    /\ UNCHANGED <<default_datelist, year_now>>

\* a new year begins
Tick ==
    /\ pc = "idle"
    /\ year_now < 2026 + MaxTicks
    /\ year_now' = year_now + 1
    /\ UNCHANGED <<pc, call, outcome, messages, default_datelist,
                   datelist_before>>

Next ==
    \/ \E e \in DateArgs : DateList(e)
    \/ \E e \in EarlyDateArgs : AbsoluteTime(e)
    \/ \E e \in FewDates, f \in FormArgs : DateString(e, f)
    \/ \E d \in DateArgs, o \in OffArgs : DatePlus(d, o)
    \/ \E d \in FoldDates, l \in PairLists : DatePlus(d, List(l))
    \/ \E d1 \in DifferenceDates, d2 \in DifferenceDates, u \in UnitArgs :
          DateDifference(d1, d2, u)
    \/ Return
    \/ Tick

Spec == Init /\ [][Next]_vars

\* ------------------------------------------------------------------------
\* Properties
\* ------------------------------------------------------------------------
Returned(op) == pc = "done" /\ call.op = op

\* a list of integers that is a calendar date as it stands
IsCalendarList(d) ==
    /\ IsList(d)
    /\ Len(d.items) \in 1..6
    /\ \A i \in 1..Len(d.items) : IsInt(d.items[i])
    /\ Date_init(d.items, None, None).exc = ""

\* the date a calendar list stands for
CalendarDate(d) == Date_init(d.items, None, None).v

\* an (amount, unit) pair of an integer and a recognized unit
IsIntegerPair(o) ==
    /\ IsList(o)
    /\ Len(o.items) = 2
    /\ IsInt(o.items[1])
    /\ IsStr(o.items[2])
    /\ IsKey(o.items[2].s, TIME_INCREMENTS)

\* C1: DatePlus of a calendar-valid date list and one pair of an integer
\* amount and a recognized unit never raises and gives a calendar-valid
\* date.
C1_AddIncrementNeverFails ==
    (/\ Returned("DatePlus")
     /\ IsCalendarList(call.args[1])
     /\ IsIntegerPair(call.args[2]))
      => /\ outcome.exc = ""
         /\ IsCalendarList(outcome.v)

\* the fixed ratios of the specification, in seconds
UnitSeconds ==
    "Year"    :> 365 * 24 * 3600 @@
    "Quarter" :> 365 * 6 * 3600 @@
    "Month"   :> 365 * 2 * 3600 @@
    "Week"    :> 7 * 24 * 3600 @@
    "Day"     :> 24 * 3600 @@
    "Hour"    :> 3600 @@
    "Minute"  :> 60 @@
    "Second"  :> 1

\* the whole seconds from date a to date b
ElapsedSeconds(a, b) ==
    LET t == DateTimeSub(b, a) IN t.days * 86400 + t.seconds

\* n seconds in the unit: an integer if the ratio divides n, else the
\* real quotient
InUnit(n, unit) ==
    IF n % UnitSeconds[unit] = 0 THEN Integer(n \div UnitSeconds[unit])
    ELSE Quotient(Integer(n), UnitSeconds[unit])

\* the number in a result of DateDifference
DifferenceNumber(v) == IF IsList(v) THEN v.items[1] ELSE v

\* C2: for two calendar lists and each of the eight units, DateDifference
\* gives the elapsed seconds divided by the unit's fixed ratio, an integer
\* when the remainder is zero and the real quotient otherwise.
C2_DifferenceInEveryUnit ==
    (/\ Returned("DateDifference")
     /\ IsCalendarList(call.args[1])
     /\ IsCalendarList(call.args[2])
     /\ \E u \in UnitNames : call.args[3] = Token(u))
      => /\ outcome.exc = ""
         /\ outcome.v # None
         /\ DifferenceNumber(outcome.v)
              = InUnit(ElapsedSeconds(CalendarDate(call.args[1]),
                                      CalendarDate(call.args[2])),
                       call.args[3].s[1])

\* a text that is no unit name
IsUnknownUnit(u) == IsStr(u) /\ ~IsKey(u.s, TIME_INCREMENTS)

\* C3: DatePlus and DateDifference called with an unrecognized unit name
\* send exactly one 'inc' message, give no value and do not raise.
C3_UnknownUnitIsOneIncrementError ==
    (\/ /\ Returned("DatePlus")
        /\ IsCalendarList(call.args[1])
        /\ IsList(call.args[2])
        /\ Len(call.args[2].items) = 2
        /\ IsInt(call.args[2].items[1])
        /\ IsUnknownUnit(call.args[2].items[2])
     \/ /\ Returned("DateDifference")
        /\ IsCalendarList(call.args[1])
        /\ IsCalendarList(call.args[2])
        /\ IsUnknownUnit(call.args[3]))
      => /\ outcome = Ok(None)
         /\ Len(messages) = 1
         /\ messages[1].tag = "inc"

\* a list of two or more recognized unit names
IsUnitList(u) ==
    /\ IsList(u)
    /\ Len(u.items) >= 2
    /\ \A i \in 1..Len(u.items) :
          IsStr(u.items[i]) /\ IsKey(u.items[i].s, TIME_INCREMENTS)

\* C4: DateDifference of two calendar lists and a list of two or more
\* recognized units returns no result, sends no message and does not raise.
C4_SeveralUnitsGiveNothing ==
    (/\ Returned("DateDifference")
     /\ IsCalendarList(call.args[1])
     /\ IsCalendarList(call.args[2])
     /\ IsUnitList(call.args[3]))
      => /\ outcome = Ok(None)
         /\ messages = <<>>

\* what DateParser makes of a date specification
Resolve(d) == to_datelist(d, "DateList", year_now, default_datelist).res

\* a calendar list, an absolute number or a text that DateParser resolves
IsResolvable(d) ==
    /\ IsCalendarList(d) \/ IsNum(d) \/ IsStr(d)
    /\ Resolve(d).exc = ""
    /\ Resolve(d).v # None

ResolvedDate(d) == Date_init(Resolve(d).v.items, None, None).v

\* C5: for two resolvable dates of any kinds, DateDifference in seconds is
\* the elapsed time from the first date resolved to the second date
\* resolved, each from its own argument.
C5_DifferenceResolvesBothDates ==
    (/\ Returned("DateDifference")
     /\ IsResolvable(call.args[1])
     /\ IsResolvable(call.args[2])
     /\ DateTimeSub(ResolvedDate(call.args[2]),
                    ResolvedDate(call.args[1])).microseconds = 0
     /\ call.args[3] = Token("Second"))
      => /\ outcome.exc = ""
         /\ messages = <<>>
         /\ outcome.v
              = List(<<Integer(ElapsedSeconds(ResolvedDate(call.args[1]),
                                              ResolvedDate(call.args[2]))),
                       Str(<<"Second">>)>>)

\* C6: DatePlus of a numeric list that DateParser resolves and the offset 0
\* gives the first k fields of the resolved list.
C6_DatePlusResolvesLikeDateList ==
    (/\ Returned("DatePlus")
     /\ IsList(call.args[1])
     /\ IsNumericDatelist(call.args[1].items)
     /\ Resolve(call.args[1]).exc = ""
     /\ Resolve(call.args[1]).v # None
     /\ call.args[2] = Integer(0))
      => outcome = Ok(List(Prefix(Resolve(call.args[1]).v.items,
                                  Len(call.args[1].items))))

OffsetPairs(off) ==
    IF IsNum(off) THEN << <<off, <<"Day">> >> >>
    ELSE IF Len(off.items) = 2 /\ IsStr(off.items[2])
    THEN << <<off.items[1], off.items[2].s>> >>
    ELSE [i \in 1..Len(off.items) |->
             <<off.items[i].items[1], off.items[i].items[2].s>>]

IsNumberPair(o) ==
    /\ IsList(o)
    /\ Len(o.items) = 2
    /\ IsNum(o.items[1])
    /\ IsStr(o.items[2])
    /\ IsKey(o.items[2].s, TIME_INCREMENTS)

\* a number, a pair of a number and a recognized unit, or a list of such
IsOffset(off) ==
    \/ IsNum(off)
    \/ IsNumberPair(off)
    \/ /\ IsList(off)
       /\ \A i \in 1..Len(off.items) : IsNumberPair(off.items[i])

\* the pairs applied from the first to the last, each to the date the
\* pairs before it gave
RECURSIVE FoldPairs(_, _)
FoldPairs(date, pairs) ==
    IF pairs = <<>> THEN Ok(date)
    ELSE LET before == FoldPairs(date, SubSeq(pairs, 1, Len(pairs) - 1))
         IN IF before.exc # "" THEN before
            ELSE addself(before.v, Timevec(pairs[Len(pairs)]))

\* one increment of the summed deltas of two pairs of integers
PreSummed(date, pairs) ==
    addself(date, [i \in 1..6 |->
                      Integer(Timevec(pairs[1])[i].w
                                + Timevec(pairs[2])[i].w)])

\* C8: DatePlus of a calendar list applies the pairs of its offset one after
\* another in the given order, each as a whole addself on the result of the
\* one before; a bare number n counts as the one pair (n, Day).
C8_OffsetsFoldLeftToRight ==
    (/\ Returned("DatePlus")
     /\ IsCalendarList(call.args[1])
     /\ IsOffset(call.args[2]))
      => LET r == FoldPairs(CalendarDate(call.args[1]),
                            OffsetPairs(call.args[2]))
         IN IF r.exc # "" THEN outcome = Raise(r.exc)
            ELSE outcome = Ok(List(Prefix(to_list(r.v),
                                          Len(call.args[1].items))))

\* a state where DatePlus has applied two pairs whose order matters: a day
\* and then a month from January 31 is March 1, while the month first, or
\* both at once, is no date
C8_Witness ==
    /\ Returned("DatePlus")
    /\ call.args = <<List(Ints(<<1903, 1, 31>>)),
                     List(<<Pair(Integer(1), "Day"),
                            Pair(Integer(1), "Month")>>)>>
    /\ outcome = Ok(List(Ints(<<1903, 3, 1>>)))
    /\ PreSummed(CalendarDate(call.args[1]),
                 OffsetPairs(call.args[2])).exc = "ValueError"

\* s without one leading "0", if it has one
StripOneZero(s) == IF s # <<>> /\ Head(s) = "0" THEN Tail(s) ELSE s

\* the ...Short tokens of one numeric field
ShortFieldTokens ==
    {"MonthShort", "DayShort", "HourShort", "Hour12Short", "Hour24Short",
     "MinuteShort", "SecondShort"}

\* C9: DateString of one ...Short token of a numeric field is the field's
\* two digits without exactly one leading "0", so that a zero field is "0".
C9_ShortStripsOneZero ==
    (/\ Returned("DateString")
     /\ IsCalendarList(call.args[1])
     /\ \E p \in ShortFieldTokens : call.args[2] = Token(p))
      => outcome
           = Ok(Str(StripOneZero(
                  strftime(CalendarDate(call.args[1]),
                           DATE_STRING_FORMATS[call.args[2].s[1]]).v)))

\* the shapes of a date specification: an absolute number, a text, a list of
\* one to six numbers whose first two are integers, a text with a list of
\* token strings
IsTextWithFormat(e) ==
    /\ IsList(e)
    /\ Len(e.items) = 2
    /\ IsStr(e.items[1])
    /\ IsList(e.items[2])
    /\ \A i \in 1..Len(e.items[2].items) : IsStr(e.items[2].items[i])

IsDateSpec(e) ==
    \/ IsNum(e)
    \/ IsStr(e)
    \/ /\ IsList(e)
       /\ Len(e.items) \in 1..6
       /\ \A i \in 1..Len(e.items) : IsNum(e.items[i])
       /\ \A i \in 1..Len(e.items) : i <= 2 => IsInt(e.items[i])
    \/ IsTextWithFormat(e)

\* C10: DateList of an input that has none of the shapes of a date
\* specification sends the 'arg' message and gives no list; the 'str'
\* message is sent only for a text with a format.
C10_OtherShapesAreArgumentErrors ==
    Returned("DateList")
      => /\ ~IsDateSpec(call.args[1])
              => /\ outcome = Ok(None)
                 /\ Len(messages) = 1
                 /\ messages[1].tag = "arg"
         /\ (\E i \in 1..Len(messages) : messages[i].tag = "str")
              => IsTextWithFormat(call.args[1])

\* what the call c gives when the default list of _Date.__init__ is dflt
Apply(c, year, dflt) ==
    CASE c.op = "DateList" -> DateList_apply(c.args[1], year, dflt)
      [] c.op = "AbsoluteTime" ->
           AbsoluteTime_apply_spec(c.args[1], year, dflt)
      [] c.op = "DateString" ->
           DateString_apply(c.args[1], c.args[2], year, dflt)
      [] c.op = "DatePlus" ->
           Evaluate(DatePlus_apply(c.args[1], c.args[2], year, dflt), year)
      [] c.op = "DateDifference" ->
           DateDifference_apply(c.args[1], c.args[2], c.args[3], dflt)

SameResult(r) == outcome = r.res /\ messages = r.msgs

\* the calls that construct a _Date without a datelist
BuildsDateWithoutList(c) ==
    \/ c.op \in {"DatePlus", "DateDifference"}
         /\ (IsNum(c.args[1]) \/ IsStr(c.args[1]))
    \/ c.op \in {"DateList", "AbsoluteTime", "DateString"}
         /\ IsTextWithFormat(c.args[1])

\* C11: whatever calls were made before, a call gives the outcome and the
\* messages it gives as the first call ever made, with the same arguments
\* in the same year: they do not depend on the shared default list the
\* earlier calls left behind.
C11_ResultsIgnoreHistory ==
    pc = "done" => SameResult(Apply(call, year_now, <<>>))

\* a _Date built without a datelist, after an earlier call has filled the
\* shared default list, and giving a value
C11_Witness ==
    /\ pc = "done"
    /\ BuildsDateWithoutList(call)
    /\ datelist_before # <<>>
    /\ outcome.exc = ""
    /\ outcome.v # None

\* an integer amount of Year, Quarter or Month: the day, hour, minute and
\* second deltas are all zero
IsCalendarPair(o) ==
    IsIntegerPair(o) /\ o.items[2].s[1] \in {"Year", "Quarter", "Month"}

YearDelta(o) == o.items[1].w * TIME_INCREMENTS[o.items[2].s[1]][1]
MonthDelta(o) == o.items[1].w * TIME_INCREMENTS[o.items[2].s[1]][2]

\* newYear = year + dy + floor(((month - 1) + dmo) / 12)
CarryYear(year, month, dy, dmo) == year + dy + (((month - 1) + dmo) \div 12)
\* newMonth = (((month - 1) + dmo) mod 12) + 1
CarryMonth(month, dmo) == (((month - 1) + dmo) % 12) + 1

\* the date with the year and month of the carry formula and everything
\* else as it is
CarryDate(date, o) ==
    datetime(Integer(CarryYear(date.year, date.month, YearDelta(o),
                               MonthDelta(o))),
             Integer(CarryMonth(date.month, MonthDelta(o))),
             Integer(date.day), Integer(date.hour), Integer(date.minute),
             Integer(date.second), Integer(date.microsecond))

CarryOutcome(stepped, n) ==
    IF stepped.exc # "" THEN Raise(stepped.exc)
    ELSE Ok(List(Prefix(to_list(stepped.v), n)))

\* C12: DatePlus of a calendar date list and an integer amount of Year,
\* Quarter or Month gives the date whose year is year + dy + floor(((month
\* - 1) + dmo) / 12) and whose month is (((month - 1) + dmo) mod 12) + 1,
\* a month in 1..12, and raises exactly when that year, month and the
\* unchanged day are no date.
C12_MonthCarry ==
    (Returned("DatePlus") /\ IsCalendarList(call.args[1])
       /\ IsCalendarPair(call.args[2]))
      => /\ outcome = CarryOutcome(CarryDate(CalendarDate(call.args[1]),
                                             call.args[2]),
                                   Len(call.args[1].items))
         /\ CarryMonth(CalendarDate(call.args[1]).month,
                       MonthDelta(call.args[2])) \in 1..12

\* DatePlus[{1904, 1}, {-2, "Month"}] = {1903, 11}: a negative total that
\* borrows from the year
C12_Witness ==
    /\ Returned("DatePlus")
    /\ call.args = <<List(Ints(<<1904, 1>>)), Pair(Integer(0 - 2), "Month")>>
    /\ outcome = Ok(List(Ints(<<1903, 11>>)))

\* a list _Date takes as a date: up to six numbers, the seconds with or
\* without a fraction
IsDateList(d) ==
    /\ IsList(d)
    /\ Len(d.items) \in 1..6
    /\ Date_init(d.items, None, None).exc = ""

\* the fields of the date list d from the day on, as far as d gives them
HeldFields(d) ==
    [i \in 3..Len(d.items) |-> to_list(CalendarDate(d))[i]]

\* C13: when DatePlus of a date list and an integer amount of Year, Quarter
\* or Month gives a date, its day, hour, minute and second, the fraction
\* of the second included, are those of the date list.
C13_CalendarStepHoldsDayAndTime ==
    (Returned("DatePlus") /\ IsDateList(call.args[1])
       /\ IsCalendarPair(call.args[2]) /\ outcome.exc = "")
      => /\ IsList(outcome.v)
         /\ Len(outcome.v.items) = Len(call.args[1].items)
         /\ \A i \in 3..Len(call.args[1].items) :
                outcome.v.items[i] = HeldFields(call.args[1])[i]

====
